---- MODULE Spec2Model ----
(***************************************************************************)
(* A model of pytools/code-tokenizer/tokenize_code.py: the regex-based     *)
(* basic tokenizer and the command-line pipeline of main() (validation,    *)
(* file discovery, the per-file processing loop, the summary, the optional *)
(* output file and the exit status).                                       *)
(*                                                                         *)
(* A Python str is a sequence of one-character strings; None and the       *)
(* optional values of the code are records with a flag.                    *)
(***************************************************************************)
EXTENDS Integers, Sequences, FiniteSets, TLC

\* ------------------------------------------------------------ bounds

\* Longest text enumerated exhaustively for the tokenizer.
MaxLen == 3

\* Most files the input directory holds.
MaxFiles == 2

\* ------------------------------------------------------------ strings

\* The grave accent (code point 96), which a TLA+ string cannot hold.
Backtick == "grave"

\* The printable ASCII characters, code points 32..126 in order.
Ascii == <<" ", "!", "\"", "#", "$", "%", "&", "'", "(", ")", "*", "+", ",", "-", ".", "/",
           "0", "1", "2", "3", "4", "5", "6", "7", "8", "9", ":", ";", "<", "=", ">", "?",
           "@", "A", "B", "C", "D", "E", "F", "G", "H", "I", "J", "K", "L", "M", "N", "O",
           "P", "Q", "R", "S", "T", "U", "V", "W", "X", "Y", "Z", "[", "\\", "]", "^", "_",
           Backtick, "a", "b", "c", "d", "e", "f", "g", "h", "i", "j", "k", "l", "m", "n", "o",
           "p", "q", "r", "s", "t", "u", "v", "w", "x", "y", "z", "{", "|", "}", "~">>

\* The code point of each character: tab, line feed, and the printable ones.
CodePoint ==
    [c \in {"\t", "\n"} \cup {Ascii[i] : i \in 1..Len(Ascii)} |->
        IF c = "\t" THEN 9
        ELSE IF c = "\n" THEN 10
        ELSE 31 + (CHOOSE i \in 1..Len(Ascii) : Ascii[i] = c)]

\* ord(c)
Ord(c) == CodePoint[c]

\* str.lower() on one character, and on a string.
LowerChar(c) ==
    IF Ord(c) >= 65 /\ Ord(c) <= 90 THEN Ascii[Ord(c) + 32 - 31] ELSE c

Lower(s) == [i \in 1..Len(s) |-> LowerChar(s[i])]

\* Python's comparison of two str: code point by code point, a proper
\* prefix first.
RECURSIVE StrLess(_, _)
StrLess(s, t) ==
    IF t = <<>> THEN FALSE
    ELSE IF s = <<>> THEN TRUE
    ELSE IF Ord(Head(s)) # Ord(Head(t)) THEN Ord(Head(s)) < Ord(Head(t))
    ELSE StrLess(Tail(s), Tail(t))

\* `sub in s` for two str.
Contains(s, sub) ==
    \E i \in 0..(Len(s) - Len(sub)) : SubSeq(s, i + 1, i + Len(sub)) = sub

\* s.startswith(p)
StartsWith(s, p) == Len(s) >= Len(p) /\ SubSeq(s, 1, Len(p)) = p

\* The characters str.isspace(), str.strip() and the pattern's \s treat as
\* whitespace (the same predicate in CPython for all three).
IsSpace(c) == c \in {" ", "\t", "\n"}

\* str.isspace(): non-empty and whitespace only.
isspace(s) == s # <<>> /\ \A i \in 1..Len(s) : IsSpace(s[i])

\* str.strip(): leading and trailing whitespace removed.
RECURSIVE LStrip(_)
LStrip(s) == IF s # <<>> /\ IsSpace(Head(s)) THEN LStrip(Tail(s)) ELSE s

RECURSIVE RStrip(_)
RStrip(s) ==
    IF s # <<>> /\ IsSpace(s[Len(s)]) THEN RStrip(SubSeq(s, 1, Len(s) - 1)) ELSE s

strip(s) == RStrip(LStrip(s))

\* sep.join(list) for a list of str.
RECURSIVE Join(_, _)
Join(sep, list) ==
    IF list = <<>> THEN <<>>
    ELSE IF Len(list) = 1 THEN list[1]
    ELSE list[1] \o sep \o Join(sep, Tail(list))

\* ------------------------------------------------------------ the pattern

PunctChars == {"(", ")", "{", "}", "[", "]", ".", ",", ";", ":", "\"", "'", Backtick, "~"}

OpChars == {"-", "+", "*", "/", "%", "<", ">", "=", "&", "|", "!", "^"}

\* One alternative of the pattern: whitespace run (outside the group), a
\* character class, a literal, or a literal behind the start-of-text anchor.
Alt(kind, chars, lit) == [kind |-> kind, chars |-> chars, lit |-> lit]

Lit(a, b) == Alt("lit", {}, <<a, b>>)

\* The alternatives of the pattern's capturing group, in the order the regex
\* lists them:
\*   [(){}\[\].,;:"'~ and the grave accent] | -> | == | != | <= | >= | && | \|\|
\*   | \+= | -= | \*= | /= | %= | ^= | \/\/ | << | >> | \*\* | [-+*/%<>=&|!^]
\* The ^ of ^= is unescaped: it is the start-of-text anchor, so that
\* alternative matches a "=" at the very start of the text.
GroupAlternatives ==
    << Alt("class", PunctChars, <<>>),
       Lit("-", ">"), Lit("=", "="), Lit("!", "="), Lit("<", "="), Lit(">", "="),
       Lit("&", "&"), Lit("|", "|"), Lit("+", "="), Lit("-", "="), Lit("*", "="),
       Lit("/", "="), Lit("%", "="),
       Alt("anchored", {}, <<"=">>),
       Lit("/", "/"), Lit("<", "<"), Lit(">", ">"), Lit("*", "*"),
       Alt("class", OpChars, <<>>) >>

\* The pattern without its whitespace alternative.
BASIC_TOKEN_PATTERN_no_space == GroupAlternatives

\* The pattern with the single-character operators tried before the
\* multi-character ones, which then never match.
BASIC_TOKEN_PATTERN_single_first ==
    << Alt("space", {}, <<>>), Alt("class", PunctChars \cup OpChars, <<>>) >>

\* BASIC_TOKEN_PATTERN: \s+ | ( the group's alternatives )
BASIC_TOKEN_PATTERN == << Alt("space", {}, <<>>) >> \o GroupAlternatives

\* The length of the longest whitespace run starting at i.
RECURSIVE SpaceRun(_, _)
SpaceRun(text, i) ==
    IF i <= Len(text) /\ IsSpace(text[i]) THEN 1 + SpaceRun(text, i + 1) ELSE 0

\* How many characters alternative alt matches at position i (0: no match).
AltLen(alt, text, i) ==
    CASE alt.kind = "space" -> SpaceRun(text, i)
      [] alt.kind = "class" -> IF text[i] \in alt.chars THEN 1 ELSE 0
      [] alt.kind = "lit" ->
            IF i + Len(alt.lit) - 1 <= Len(text)
               /\ SubSeq(text, i, i + Len(alt.lit) - 1) = alt.lit
            THEN Len(alt.lit) ELSE 0
      [] alt.kind = "anchored" ->
            IF i = 1 /\ i + Len(alt.lit) - 1 <= Len(text)
               /\ SubSeq(text, i, i + Len(alt.lit) - 1) = alt.lit
            THEN Len(alt.lit) ELSE 0

\* The match of the pattern at position i: the first alternative, in order,
\* that matches (len 0: none does); `captured` tells whether the match is the
\* capturing group's (everything but the whitespace run).
MatchAt(text, i) ==
    LET pat == BASIC_TOKEN_PATTERN
        hits == {k \in 1..Len(pat) : AltLen(pat[k], text, i) > 0}
    IN  IF hits = {} THEN [len |-> 0, captured |-> FALSE]
        ELSE LET k == CHOOSE x \in hits : \A y \in hits : x <= y
             IN  [len |-> AltLen(pat[k], text, i), captured |-> pat[k].kind # "space"]

\* An element of the list re.split returns: a str, or None for a group that
\* did not take part in the match.
StrPart(s) == [isNone |-> FALSE, s |-> s]

NonePart == [isNone |-> TRUE, s |-> <<>>]

\* BASIC_TOKEN_PATTERN.split(text) from position `last` on, scanning from
\* `pos` for the leftmost match: the text before each match, then the group
\* of the match, and the rest of the text at the end.
RECURSIVE SplitFrom(_, _, _)
SplitFrom(text, last, pos) ==
    IF pos > Len(text) THEN << StrPart(SubSeq(text, last, Len(text))) >>
    ELSE LET m == MatchAt(text, pos)
         IN  IF m.len = 0 THEN SplitFrom(text, last, pos + 1)
             ELSE << StrPart(SubSeq(text, last, pos - 1)),
                     IF m.captured
                     THEN StrPart(SubSeq(text, pos, pos + m.len - 1))
                     ELSE NonePart >>
                  \o SplitFrom(text, pos + m.len, pos + m.len)

re_split(text) == SplitFrom(text, 1, 1)

\* The loop of basic_tokenizer over the parts: a truthy part is appended,
\* stripped.
AppendPart(tokens, part) ==
    IF ~part.isNone /\ part.s # <<>> THEN Append(tokens, strip(part.s)) ELSE tokens

RECURSIVE CollectParts(_, _)
CollectParts(tokens, parts) ==
    IF parts = <<>> THEN tokens
    ELSE CollectParts(AppendPart(tokens, Head(parts)), Tail(parts))

\* The returned comprehension: tokens that are non-empty and not whitespace.
FilterTokens(tokens) == SelectSeq(tokens, LAMBDA t : t # <<>> /\ ~isspace(t))

basic_tokenizer(text) == FilterTokens(CollectParts(<<>>, re_split(text)))

\* ------------------------------------------------------------ tokenizer runs

VARIABLES text, parts, tokens, tpc

tokvars == <<text, parts, tokens, tpc>>

\* The characters the texts are built from.
Alphabet == {"a", " ", "\n", "=", "-", ">", "^", "("}

RECURSIVE TextsOfLen(_)
TextsOfLen(n) ==
    IF n = 0 THEN {<<>>}
    ELSE {Append(t, c) : t \in TextsOfLen(n - 1), c \in Alphabet}

ExampleText ==
    <<"i", "f", " ", "(", "a", "=", "=", "b", ")", " ", "{", " ",
      "r", "e", "t", "u", "r", "n", " ", "-", "1", ";", " ", "}">>

\* The two-character sequences the pattern lists as operators, `^=` among
\* them.
ListedOperators ==
    { <<"-", ">">>, <<"=", "=">>, <<"!", "=">>, <<"<", "=">>, <<">", "=">>,
      <<"&", "&">>, <<"|", "|">>, <<"+", "=">>, <<"-", "=">>, <<"*", "=">>,
      <<"/", "=">>, <<"%", "=">>, <<"^", "=">>, <<"/", "/">>, <<"<", "<">>,
      <<">", ">">>, <<"*", "*">> }

\* Each listed operator between two names, with and without spaces.
OperatorTexts ==
    {<<"a">> \o op \o <<"b">> : op \in ListedOperators}
    \cup {<<"a", " ">> \o op \o <<" ", "b">> : op \in ListedOperators}

Texts == UNION {TextsOfLen(n) : n \in 0..MaxLen} \cup {ExampleText} \cup OperatorTexts

\* ------------------------------------------------------------ configuration

\* CODE_EXTENSIONS, the default of --extensions.
CODE_EXTENSIONS == {
    <<".", "p", "y">>, <<".", "g", "o">>, <<".", "j", "s">>, <<".", "j", "s", "x">>,
    <<".", "t", "s">>, <<".", "t", "s", "x">>, <<".", "j", "a", "v", "a">>, <<".", "c">>,
    <<".", "c", "p", "p">>, <<".", "h">>, <<".", "h", "p", "p">>, <<".", "c", "s">>,
    <<".", "r", "b">>, <<".", "p", "h", "p">>, <<".", "s", "w", "i", "f", "t">>,
    <<".", "k", "t">>, <<".", "s", "c", "a", "l", "a">>, <<".", "r", "s">>,
    <<".", "l", "u", "a">>, <<".", "s", "h">>, <<".", "b", "a", "s", "h">>,
    <<".", "h", "t", "m", "l">>, <<".", "c", "s", "s">>, <<".", "s", "c", "s", "s">>,
    <<".", "s", "q", "l">>, <<".", "y", "a", "m", "l">>, <<".", "y", "m", "l">>,
    <<".", "j", "s", "o", "n">>, <<".", "m", "d">>, <<".", "t", "x", "t">>}

\* None, and a value that is present.
None == [isNone |-> TRUE, v |-> <<>>]

Some(x) == [isNone |-> FALSE, v |-> x]

\* Python's truth value of an optional str or list.
Truthy(opt) == ~opt.isNone /\ opt.v # <<>>

\* ------------------------------------------------------------ paths

\* The working directory of the process.
Cwd == <<"/", "w">>

Sep == <<"/">>

\* os.path.abspath of a path without "." or ".." components.
abspath(p) == IF StartsWith(p, Sep) THEN p ELSE Cwd \o Sep \o p

\* os.path.join(root, file) for a relative file name.
join(root, file) ==
    IF root # <<>> /\ root[Len(root)] = "/" THEN root \o file ELSE root \o Sep \o file

\* The index of the last occurrence of character c in p (0: none).
RFind(p, c) ==
    LET at == {i \in 1..Len(p) : p[i] = c}
    IN  IF at = {} THEN 0 ELSE CHOOSE i \in at : \A j \in at : j <= i

\* os.path.dirname
dirname(p) ==
    LET i == RFind(p, "/")
        head == SubSeq(p, 1, i)
    IN  IF head # <<>> /\ \E k \in 1..Len(head) : head[k] # "/"
        THEN SubSeq(head, 1, i - 1) ELSE head

\* The second component of os.path.splitext(p): from the last dot of the last
\* path component on, unless only dots precede it there.
splitext(p) ==
    LET sepIndex == RFind(p, "/")
        dotIndex == RFind(p, ".")
    IN  IF dotIndex > sepIndex
           /\ \E k \in (sepIndex + 1)..(dotIndex - 1) : p[k] # "."
        THEN SubSeq(p, dotIndex, Len(p)) ELSE <<>>

\* sorted(list) of str: insertion into a sorted list, stable.
RECURSIVE InsertSorted(_, _)
InsertSorted(x, list) ==
    IF list = <<>> THEN <<x>>
    ELSE IF StrLess(x, Head(list)) THEN <<x>> \o list
    ELSE <<Head(list)>> \o InsertSorted(x, Tail(list))

\* sorted() left out: the list as it is.
sorted_left_out(list) == list

RECURSIVE sorted(_)
sorted(list) ==
    IF list = <<>> THEN <<>>
    ELSE InsertSorted(list[Len(list)], sorted(SubSeq(list, 1, Len(list) - 1)))

\* ------------------------------------------------------------ dict

\* A Python dict: its items in insertion order, each key once.
DictKeys(d) == [i \in 1..Len(d) |-> d[i].key]

DictHas(d, k) == \E i \in 1..Len(d) : d[i].key = k

DictGet(d, k) == d[CHOOSE i \in 1..Len(d) : d[i].key = k].value

\* d[k] = v: a present key keeps its place.
DictSet(d, k, v) ==
    IF DictHas(d, k)
    THEN [i \in 1..Len(d) |-> IF d[i].key = k THEN [key |-> k, value |-> v] ELSE d[i]]
    ELSE Append(d, [key |-> k, value |-> v])

\* ------------------------------------------------------------ the process

VARIABLES
    args,                \* the parsed command line
    TIKTOKEN_AVAILABLE,  \* whether `import tiktoken` succeeded
    world,               \* the file system at the input path
    pc,                  \* where main() is
    allowed_extensions,
    code_files,
    sorted_files,        \* the list the for loop iterates over
    idx,                 \* the loop's position in it
    all_results,
    total_token_count,
    errors,
    console,             \* the lines printed, stdout and stderr, in order
    opened,              \* the input files open() was called on
    disk0,               \* the output path before the run
    disk,                \* the output path now
    written,             \* what has been handed to outfile.write
    exit_code            \* the status passed to sys.exit (-1: none yet)

pipevars == <<args, TIKTOKEN_AVAILABLE, world, pc, allowed_extensions, code_files,
              sorted_files, idx, all_results, total_token_count, errors, console,
              opened, disk0, disk, written, exit_code>>

vars == <<pipevars, tokvars>>

\* The names of the files the input directory may hold, and the relative
\* paths given on the command line.
FileNames == { <<"a", ".", "p", "y">>,
               <<"b", ".", "m", "d">>,
               <<"O", "u", "t", "p", "u", "t", " ", "E", "r", "r", "o", "r", ".", "P", "Y">>,
               <<"c", ".", "b", "i", "n">> }

DirPath == <<"d">>

OutputPath == <<"o", ".", "j", "s", "o", "n">>

DefaultModel == <<"g", "p", "t", "-", "4">>

\* The sequences without repetition of at most n elements of S.
RECURSIVE Listings(_, _)
Listings(S, n) ==
    IF n = 0 THEN {<<>>}
    ELSE LET shorter == Listings(S, n - 1)
         IN  shorter \cup {Append(l, x) : l \in shorter, x \in S}

NoRepeat(l) == \A i, j \in 1..Len(l) : l[i] = l[j] => i = j

\* What the input path is, with the directory's files in the order os.walk
\* lists them.
Worlds ==
    [kind : {"missing", "other"}, input_path : {DirPath}, files : {<<>>}]
    \cup [kind : {"file"}, input_path : FileNames, files : {<<>>}]
    \cup [kind : {"dir"}, input_path : {DirPath},
          files : {l \in Listings(FileNames, MaxFiles) : NoRepeat(l)}]

\* The values of --extensions: the default, or one given without its dot and
\* in upper case.
ExtensionArgs == {CODE_EXTENSIONS, {<<"P", "Y">>}}

\* What the output path holds before the run: nothing, or an older output.
OldData == << [t |-> "old"] >>

NoFile == [exists |-> FALSE, data |-> <<>>]

PipeInit ==
    /\ world \in Worlds
    /\ TIKTOKEN_AVAILABLE \in BOOLEAN
    /\ \E mode \in {"basic", "tiktoken"}, output \in {None, Some(OutputPath)},
          verbose \in BOOLEAN, extensions \in ExtensionArgs,
          model_known \in BOOLEAN :
            /\ (mode = "basic" \/ ~TIKTOKEN_AVAILABLE) => model_known
            /\ args = [input_path |-> world.input_path, mode |-> mode,
                       model |-> DefaultModel, model_known |-> model_known,
                       output |-> output, extensions |-> extensions,
                       verbose |-> verbose]
    /\ disk0 \in {NoFile} \cup
                 (IF args.output.isNone THEN {} ELSE {[exists |-> TRUE, data |-> OldData]})
    /\ disk = disk0
    /\ written = <<>>
    /\ pc = "validate"
    /\ allowed_extensions = {}
    /\ code_files = <<>>
    /\ sorted_files = <<>>
    /\ idx = 1
    /\ all_results = <<>>
    /\ total_token_count = 0
    /\ errors = <<>>
    /\ console = <<>>
    /\ opened = {}
    /\ exit_code = -1

\* print(..., file=sys.stderr) and print(...): a line of the console.
Err(kind, detail) == [stream |-> "stderr", kind |-> kind, detail |-> detail]

Out(kind, detail) == [stream |-> "stdout", kind |-> kind, detail |-> detail]

\* sys.exit(code)
Exit(code) == pc' = "done" /\ exit_code' = code

\* The extensions of --extensions, each lower-cased and given its dot.
NormalizeExtensions(extensions) ==
    {IF StartsWith(ext, <<".">>) THEN Lower(ext) ELSE <<".">> \o Lower(ext) :
        ext \in extensions}

\* The pre-flight test left out: no mode is turned away.
ModeUnavailable_unchecked(mode, available) == FALSE

\* The pre-flight test of main(): the external mode without its library.
ModeUnavailable(mode, available) == mode = "tiktoken" /\ ~available

ValidateMode ==
    /\ pc = "validate"
    /\ IF ModeUnavailable(args.mode, TIKTOKEN_AVAILABLE)
       THEN /\ console' = console \o << Err("tiktoken_not_installed", <<>>),
                                        Err("install_hint", <<>>) >>
            /\ Exit(1)
            /\ UNCHANGED allowed_extensions
       ELSE /\ allowed_extensions' = NormalizeExtensions(args.extensions)
            /\ console' = Append(console, Out("extensions", allowed_extensions'))
            /\ pc' = "find"
            /\ UNCHANGED exit_code
    /\ UNCHANGED <<args, TIKTOKEN_AVAILABLE, world, code_files, sorted_files, idx,
                   all_results, total_token_count, errors, opened, disk0, disk, written>>
    /\ UNCHANGED tokvars

\* ------------------------------------------------------------ discovery

\* The list comprehension over os.walk of a flat directory: the files, in the
\* order listed, whose lower-cased extension is allowed, joined to the root.
RECURSIVE WalkFiles(_, _, _)
WalkFiles(root, files, allowed) ==
    IF files = <<>> THEN <<>>
    ELSE (IF Lower(splitext(Head(files))) \in allowed
          THEN << join(root, Head(files)) >> ELSE <<>>)
         \o WalkFiles(root, Tail(files), allowed)

\* find_code_files with a single file's extension test left out.
find_code_files_no_filter(start_path, allowed) ==
    LET abs_start_path == abspath(start_path)
    IN  CASE world.kind = "missing" ->
               [code_files |-> <<>>, printed |-> << Err("path_missing", abs_start_path) >>]
          [] world.kind = "file" -> [code_files |-> << abs_start_path >>, printed |-> <<>>]
          [] world.kind = "dir" ->
               [code_files |-> WalkFiles(abs_start_path, world.files, allowed),
                printed |-> <<>>]
          [] OTHER ->
               [code_files |-> <<>>, printed |-> << Err("not_file_or_dir", abs_start_path) >>]

\* find_code_files(start_path, allowed_extensions): the files found and the
\* lines printed on the way.
find_code_files(start_path, allowed) ==
    LET abs_start_path == abspath(start_path)
    IN  CASE world.kind = "missing" ->
               [code_files |-> <<>>, printed |-> << Err("path_missing", abs_start_path) >>]
          [] world.kind = "file" ->
               IF Lower(splitext(abs_start_path)) \in allowed
               THEN [code_files |-> << abs_start_path >>, printed |-> <<>>]
               ELSE [code_files |-> <<>>,
                     printed |-> << Err("skip_unsupported", abs_start_path) >>]
          [] world.kind = "dir" ->
               [code_files |-> WalkFiles(abs_start_path, world.files, allowed),
                printed |-> <<>>]
          [] OTHER ->
               [code_files |-> <<>>, printed |-> << Err("not_file_or_dir", abs_start_path) >>]

\* `if not code_files` with the test inverted away: never true.
NoFilesFound_never(files) == FALSE

\* `if not code_files`
NoFilesFound(files) == files = <<>>

FindFiles ==
    /\ pc = "find"
    /\ LET found == find_code_files(args.input_path, allowed_extensions)
       IN  /\ code_files' = found.code_files
           /\ IF NoFilesFound(found.code_files)
              THEN /\ console' = console \o found.printed
                                   \o << Err("no_code_files", <<>>) >>
                   /\ Exit(0)
                   /\ UNCHANGED sorted_files
              ELSE /\ console' = console \o found.printed
                                   \o << Out("found", Len(found.code_files)) >>
                   /\ sorted_files' = sorted(found.code_files)
                   /\ pc' = IF found.code_files = <<>> THEN "report" ELSE "loop"
                   /\ UNCHANGED exit_code
    /\ all_results' = <<>>
    /\ total_token_count' = 0
    /\ errors' = <<>>
    /\ idx' = 1
    /\ UNCHANGED <<args, TIKTOKEN_AVAILABLE, world, allowed_extensions, opened,
                   disk0, disk, written>>
    /\ UNCHANGED tokvars

\* ------------------------------------------------------------ one file

Contents == { <<"a", " ", "b">>, <<"-", "1", ";">> }

IdLists == { <<101>>, <<7, 8, 9>> }

ExcMsg == <<"d", "e", "n", "i", "e", "d">>

\* What opening, reading and encoding one file can come to: the content read
\* (and, in external mode, the IDs the encoding gives it), FileNotFoundError,
\* or another exception with its message.
Outcomes(mode) ==
    [kind : {"notfound"}, content : {<<>>}, ids : {<<>>}, msg : {<<>>}]
    \cup [kind : {"exception"}, content : {<<>>}, ids : {<<>>}, msg : {ExcMsg}]
    \cup (IF mode = "basic"
          THEN [kind : {"ok"}, content : Contents, ids : {<<>>}, msg : {<<>>}]
          ELSE [kind : {"ok"}, content : {<<"a", " ", "b">>}, ids : IdLists, msg : {<<>>}]
               \cup [kind : {"encode_exception"}, content : {<<"a", " ", "b">>},
                     ids : {<<>>}, msg : {ExcMsg}])

FileNotFoundMsg ==
    <<"F", "i", "l", "e", " ", "n", "o", "t", " ", "f", "o", "u", "n", "d", ":", " ">>

ErrorProcessingMsg ==
    <<"E", "r", "r", "o", "r", " ", "p", "r", "o", "c", "e", "s", "s", "i", "n", "g", " ",
      "f", "i", "l", "e", " ">>

NotInstalledMsg ==
    <<"t", "i", "k", "t", "o", "k", "e", "n", " ", "l", "i", "b", "r", "a", "r", "y", " ",
      "n", "o", "t", " ", "i", "n", "s", "t", "a", "l", "l", "e", "d">>

\* What process_file hands back: the triple it returns, the lines printed
\* under it, and whether an exception left it instead.
Returned(toks, count, error, printed) ==
    [raised |-> FALSE, tokens |-> toks, count |-> count, error |-> error,
     printed |-> printed]

Raised == [raised |-> TRUE, tokens |-> None, count |-> 0, error |-> None, printed |-> <<>>]

\* tiktoken_tokenizer(text, model_name): the IDs, after a warning when the
\* model is unknown and the default encoding is used.
tiktoken_tokenizer(outcome) ==
    [token_ids |-> outcome.ids,
     printed |-> IF args.model_known THEN <<>>
                 ELSE << Err("model_fallback", args.model) >>]

\* process_file without its `except Exception`: only FileNotFoundError is
\* caught.
process_file_uncaught(file_path, mode, outcome) ==
    CASE outcome.kind = "notfound" ->
            Returned(None, 0, Some(FileNotFoundMsg \o file_path), <<>>)
      [] outcome.kind \in {"exception", "encode_exception"} -> Raised
      [] OTHER ->
            IF mode = "basic"
            THEN LET toks == basic_tokenizer(outcome.content)
                 IN  Returned(Some(toks), Len(toks), None, <<>>)
            ELSE LET t == tiktoken_tokenizer(outcome)
                 IN  Returned(Some(t.token_ids), Len(t.token_ids), None, t.printed)

\* process_file(file_path, mode, model_name)
process_file(file_path, mode, outcome) ==
    CASE outcome.kind = "notfound" ->
            Returned(None, 0, Some(FileNotFoundMsg \o file_path), <<>>)
      [] outcome.kind = "exception" ->
            Returned(None, 0,
                     Some(ErrorProcessingMsg \o file_path \o <<":", " ">> \o outcome.msg),
                     <<>>)
      [] outcome.kind = "encode_exception" ->
            Returned(None, 0,
                     Some(ErrorProcessingMsg \o file_path \o <<":", " ">> \o outcome.msg),
                     IF args.model_known THEN <<>>
                     ELSE << Err("model_fallback", args.model) >>)
      [] OTHER ->
            IF mode = "basic"
            THEN LET toks == basic_tokenizer(outcome.content)
                 IN  Returned(Some(toks), Len(toks), None, <<>>)
            ELSE IF mode = "tiktoken"
            THEN IF ~TIKTOKEN_AVAILABLE
                 THEN Returned(None, 0, Some(NotInstalledMsg), <<>>)
                 ELSE LET t == tiktoken_tokenizer(outcome)
                      IN  Returned(Some(t.token_ids), Len(t.token_ids), None, t.printed)
            ELSE Returned(None, 0, Some(<<"Invalid mode", mode>>), <<>>)

\* The run's accumulators.
Acc(results, total, errs) ==
    [all_results |-> results, total_token_count |-> total, errors |-> errs]

\* The loop body's bookkeeping with `total_token_count += count` left out.
RecordResult_no_total(acc, file_path, r) ==
    IF Truthy(r.error)
    THEN Acc(DictSet(acc.all_results, file_path, [count |-> 0, error |-> r.error.v]),
             acc.total_token_count,
             Append(acc.errors, file_path \o <<":", " ">> \o r.error.v))
    ELSE Acc(DictSet(acc.all_results, file_path,
                     [count |-> r.count, tokens |-> r.tokens.v]),
             acc.total_token_count,
             acc.errors)

\* The loop body's bookkeeping: an error is listed and recorded with count 0,
\* a success adds to the total and is recorded with its tokens.
RecordResult(acc, file_path, r) ==
    IF Truthy(r.error)
    THEN Acc(DictSet(acc.all_results, file_path, [count |-> 0, error |-> r.error.v]),
             acc.total_token_count,
             Append(acc.errors, file_path \o <<":", " ">> \o r.error.v))
    ELSE Acc(DictSet(acc.all_results, file_path,
                     [count |-> r.count, tokens |-> r.tokens.v]),
             acc.total_token_count + r.count,
             acc.errors)

\* The lines the loop body prints with --verbose.
VerboseLines(file_path, r) ==
    IF ~args.verbose THEN r.printed
    ELSE << Out("processing", file_path) >> \o r.printed
         \o (IF Truthy(r.error) THEN << Err("file_error", r.error.v) >>
             ELSE << Out("file_tokens", <<r.count, args.mode>>) >>)

\* One iteration of `for file_path in sorted(code_files)`. An exception that
\* leaves process_file leaves main() too: the interpreter prints the
\* traceback and exits with status 1.
LoopStep ==
    /\ pc = "loop"
    /\ idx <= Len(sorted_files)
    /\ \E outcome \in Outcomes(args.mode) :
         LET file_path == sorted_files[idx]
             r == process_file(file_path, args.mode, outcome)
             acc == RecordResult(Acc(all_results, total_token_count, errors), file_path, r)
         IN  /\ opened' = opened \cup {file_path}
             /\ IF r.raised
                THEN /\ pc' = "crashed"
                     /\ exit_code' = 1
                     /\ console' = console
                           \o (IF args.verbose THEN << Out("processing", file_path) >>
                               ELSE <<>>)
                           \o << Err("traceback", <<>>) >>
                     /\ UNCHANGED <<idx, all_results, total_token_count, errors>>
                ELSE /\ all_results' = acc.all_results
                     /\ total_token_count' = acc.total_token_count
                     /\ errors' = acc.errors
                     /\ console' = console \o VerboseLines(file_path, r)
                     /\ idx' = idx + 1
                     /\ pc' = IF idx = Len(sorted_files) THEN "report" ELSE "loop"
                     /\ UNCHANGED exit_code
    /\ UNCHANGED <<args, TIKTOKEN_AVAILABLE, world, allowed_extensions, code_files,
                   sorted_files, disk0, disk, written>>
    /\ UNCHANGED tokvars

\* ------------------------------------------------------------ the summary

\* One line per item of all_results, in the dict's order.
SummaryLines(results, mode) ==
    [i \in 1..Len(results) |->
        IF "error" \in DOMAIN results[i].value
        THEN Out("summary_error", <<results[i].key, results[i].value.error>>)
        ELSE Out("summary_tokens", <<results[i].key, results[i].value.count, mode>>)]

Report ==
    /\ pc = "report"
    /\ console' = console
          \o << Out("summary_header", <<>>) >>
          \o SummaryLines(all_results, args.mode)
          \o << Out("total", <<total_token_count, args.mode>>) >>
          \o (IF errors # <<>> THEN << Out("error_count", Len(errors)) >> ELSE <<>>)
    /\ pc' = IF Truthy(args.output) THEN "save" ELSE "exit"
    /\ UNCHANGED <<args, TIKTOKEN_AVAILABLE, world, allowed_extensions, code_files,
                   sorted_files, idx, all_results, total_token_count, errors, opened,
                   disk0, disk, written, exit_code>>
    /\ UNCHANGED tokvars

\* ------------------------------------------------------------ the output file

OutputErrorPrefix ==
    <<"O", "u", "t", "p", "u", "t", " ", "E", "r", "r", "o", "r", ":", " ">>

OutputErrorMark == <<"O", "u", "t", "p", "u", "t", " ", "E", "r", "r", "o", "r">>

UnknownError == <<"U", "n", "k", "n", "o", "w", "n", " ", "e", "r", "r", "o", "r">>

\* The message of the exception a failed open or write raises.
IoMsg == <<"N", "o", " ", "s", "p", "a", "c", "e">>

\* A Python list of IDs and a Python dict, as values of one list.
PyList(ids) == [type |-> "list", v |-> ids]

PyDict(d) == [type |-> "dict", v |-> d]

\* all_tokens_flat of the basic branch: the tokens of the files that have
\* some, in the sorted order of the paths.
RECURSIVE FlatTokens(_, _)
FlatTokens(results, keys) ==
    IF keys = <<>> THEN <<>>
    ELSE LET result == DictGet(results, Head(keys))
         IN  (IF "tokens" \in DOMAIN result THEN result.tokens ELSE <<>>)
             \o FlatTokens(results, Tail(keys))

\* output_data with the files that errored left out, as the basic branch
\* leaves them out.
RECURSIVE OutputDataSkip(_, _)
OutputDataSkip(results, keys) ==
    IF keys = <<>> THEN <<>>
    ELSE LET result == DictGet(results, Head(keys))
         IN  (IF "tokens" \in DOMAIN result THEN << PyList(result.tokens) >> ELSE <<>>)
             \o OutputDataSkip(results, Tail(keys))

output_data_skip_errors(results) == OutputDataSkip(results, sorted(DictKeys(results)))

\* output_data of the tiktoken branch, built over the sorted paths: a file's
\* IDs, or a placeholder with its error and its path.
RECURSIVE OutputDataOver(_, _)
OutputDataOver(results, keys) ==
    IF keys = <<>> THEN <<>>
    ELSE LET file_path == Head(keys)
             result == DictGet(results, file_path)
         IN  << IF "tokens" \in DOMAIN result
                THEN PyList(result.tokens)
                ELSE PyDict([error |-> IF "error" \in DOMAIN result
                                       THEN result.error ELSE UnknownError,
                             file |-> file_path]) >>
             \o OutputDataOver(results, Tail(keys))

output_data(results) == OutputDataOver(results, sorted(DictKeys(results)))

\* One value of the list as JSON: an array of numbers or an object.
JsonEncode(x) ==
    IF x.type = "list" THEN [t |-> "array", v |-> x.v]
    ELSE [t |-> "object", v |-> x.v]

\* json.dump(list, outfile): the pieces written, in order: the opening
\* bracket, each element, the closing bracket.
JsonDump(list) ==
    << [t |-> "["] >> \o [i \in 1..Len(list) |-> JsonEncode(list[i])] \o << [t |-> "]"] >>

\* What the body of the `with` writes, piece by piece: the joined tokens (an
\* empty string writes nothing), or the JSON list.
OutputPieces(results, mode) ==
    IF mode = "basic"
    THEN LET joined == Join(<<" ">>, FlatTokens(results, sorted(DictKeys(results))))
         IN  IF joined = <<>> THEN <<>> ELSE << [t |-> "text", v |-> joined] >>
    ELSE JsonDump(output_data(results))

\* The run's output step begins: the directory is made, the path is opened
\* for writing (which creates or truncates it). makedirs is outside the try:
\* its exception ends the process with a traceback.
SaveOpen ==
    /\ pc = "save"
    /\ LET abs_output_path == abspath(args.output.v)
           output_dir == dirname(abs_output_path)
       IN  \E env \in {"ok", "makedirs_fails", "open_fails"} :
             CASE env = "makedirs_fails" ->
                    /\ output_dir # <<>>
                    /\ pc' = "crashed"
                    /\ exit_code' = 1
                    /\ console' = Append(console, Err("traceback", <<>>))
                    /\ UNCHANGED <<errors, disk, written>>
               [] env = "open_fails" ->
                    /\ console' = console \o << Out("saving", abs_output_path),
                                                Err("write_error", <<abs_output_path, IoMsg>>) >>
                    /\ errors' = Append(errors, OutputErrorPrefix \o IoMsg)
                    /\ pc' = "exit"
                    /\ UNCHANGED <<disk, written, exit_code>>
               [] OTHER ->
                    /\ console' = Append(console, Out("saving", abs_output_path))
                    /\ disk' = [exists |-> TRUE, data |-> <<>>]
                    /\ written' = <<>>
                    /\ pc' = "write"
                    /\ UNCHANGED <<errors, exit_code>>
    /\ UNCHANGED <<args, TIKTOKEN_AVAILABLE, world, allowed_extensions, code_files,
                   sorted_files, idx, all_results, total_token_count, opened, disk0>>
    /\ UNCHANGED tokvars

\* The next piece is written, or the write raises: IOError, or another
\* exception; the `with` closes the file on the way out, with what was
\* written in it.
SaveWrite ==
    /\ pc = "write"
    /\ LET pieces == OutputPieces(all_results, args.mode)
           abs_output_path == abspath(args.output.v)
       IN  /\ Len(written) < Len(pieces)
           /\ \E env \in {"ok", "IOError", "Exception"} :
                IF env = "ok"
                THEN /\ written' = Append(written, pieces[Len(written) + 1])
                     /\ UNCHANGED <<disk, errors, console, pc>>
                ELSE /\ disk' = [exists |-> TRUE, data |-> written]
                     /\ console' = Append(console,
                           IF env = "IOError"
                           THEN Err("write_error", <<abs_output_path, IoMsg>>)
                           ELSE Err("unexpected_output_error", IoMsg))
                     /\ errors' = Append(errors, OutputErrorPrefix \o IoMsg)
                     /\ pc' = "exit"
                     /\ UNCHANGED written
    /\ UNCHANGED <<args, TIKTOKEN_AVAILABLE, world, allowed_extensions, code_files,
                   sorted_files, idx, all_results, total_token_count, opened, disk0,
                   exit_code>>
    /\ UNCHANGED tokvars

\* Everything is written: the file is closed and the success is printed.
SaveClose ==
    /\ pc = "write"
    /\ Len(written) = Len(OutputPieces(all_results, args.mode))
    /\ disk' = [exists |-> TRUE, data |-> written]
    /\ console' = Append(console, Out("saved", <<>>))
    /\ pc' = "exit"
    /\ UNCHANGED <<args, TIKTOKEN_AVAILABLE, world, allowed_extensions, code_files,
                   sorted_files, idx, all_results, total_token_count, errors, opened,
                   disk0, written, exit_code>>
    /\ UNCHANGED tokvars

\* ------------------------------------------------------------ the exit

\* The final if/elif/else of main().
ExitStatus(errs, output) ==
    IF errs # <<>> /\ ~Truthy(output) THEN 1
    ELSE IF /\ errs # <<>>
            /\ Truthy(output)
            /\ \E i \in 1..Len(errs) : Contains(errs[i], OutputErrorMark)
         THEN 1
    ELSE 0

FinalExit ==
    /\ pc = "exit"
    /\ Exit(ExitStatus(errors, args.output))
    /\ UNCHANGED <<args, TIKTOKEN_AVAILABLE, world, allowed_extensions, code_files,
                   sorted_files, idx, all_results, total_token_count, errors, console,
                   opened, disk0, disk, written>>
    /\ UNCHANGED tokvars

Running == {"validate", "find", "loop", "report", "save", "write", "exit"}

\* The process is interrupted (a signal) wherever it is. While the output
\* file is open, what has been written reaches the path (the `with` closes
\* the file as KeyboardInterrupt unwinds) or does not (the process is killed).
Interrupt ==
    /\ pc \in Running
    /\ pc' = "interrupted"
    /\ IF pc = "write"
       THEN disk' \in {disk, [exists |-> TRUE, data |-> written]}
       ELSE UNCHANGED disk
    /\ UNCHANGED <<args, TIKTOKEN_AVAILABLE, world, allowed_extensions, code_files,
                   sorted_files, idx, all_results, total_token_count, errors, console,
                   opened, disk0, written, exit_code>>
    /\ UNCHANGED tokvars

\* ------------------------------------------------------------ specifications

TokIdle ==
    /\ text = <<>>
    /\ parts = <<>>
    /\ tokens = <<>>
    /\ tpc = "idle"

Init == PipeInit /\ TokIdle

Next ==
    \/ ValidateMode
    \/ FindFiles
    \/ LoopStep
    \/ Report
    \/ SaveOpen
    \/ SaveWrite
    \/ SaveClose
    \/ FinalExit
    \/ Interrupt

Spec == Init /\ [][Next]_vars

\* The tokenizer on its own: the process does not run.
PipeIdle ==
    /\ world = [kind |-> "missing", input_path |-> DirPath, files |-> <<>>]
    /\ TIKTOKEN_AVAILABLE = FALSE
    /\ args = [input_path |-> DirPath, mode |-> "basic", model |-> DefaultModel,
               model_known |-> TRUE, output |-> None, extensions |-> CODE_EXTENSIONS,
               verbose |-> FALSE]
    /\ disk0 = NoFile
    /\ disk = NoFile
    /\ written = <<>>
    /\ pc = "idle"
    /\ allowed_extensions = {}
    /\ code_files = <<>>
    /\ sorted_files = <<>>
    /\ idx = 1
    /\ all_results = <<>>
    /\ total_token_count = 0
    /\ errors = <<>>
    /\ console = <<>>
    /\ opened = {}
    /\ exit_code = -1

TokInit ==
    /\ text \in Texts
    /\ parts = <<>>
    /\ tokens = <<>>
    /\ tpc = "split"

\* parts = BASIC_TOKEN_PATTERN.split(text)
TokSplit ==
    /\ tpc = "split"
    /\ parts' = re_split(text)
    /\ tpc' = "collect"
    /\ UNCHANGED <<text, tokens>>
    /\ UNCHANGED pipevars

\* One iteration of `for part in parts`.
TokCollect ==
    /\ tpc = "collect"
    /\ parts # <<>>
    /\ tokens' = AppendPart(tokens, Head(parts))
    /\ parts' = Tail(parts)
    /\ UNCHANGED <<text, tpc>>
    /\ UNCHANGED pipevars

\* The loop is over: the filtered list is returned.
TokReturn ==
    /\ tpc = "collect"
    /\ parts = <<>>
    /\ tokens' = FilterTokens(tokens)
    /\ tpc' = "done"
    /\ UNCHANGED <<text, parts>>
    /\ UNCHANGED pipevars

TokNext == TokSplit \/ TokCollect \/ TokReturn

\* The tokenizer is given a text; the process does not run.
TokStart == TokInit /\ PipeIdle

TokSpec == TokStart /\ [][TokNext]_vars

\* ------------------------------------------------------------ properties

\* Whether a recorded result is an error, and whether some line of a kind is
\* on the console.
IsError(result) == "error" \in DOMAIN result

Printed(kind) == \E i \in 1..Len(console) : console[i].kind = kind

ErrorEntries == {i \in 1..Len(all_results) : IsError(all_results[i].value)}

\* The sum of the recorded counts of the results without error.
RECURSIVE SumCounts(_)
SumCounts(results) ==
    IF results = <<>> THEN 0
    ELSE (IF IsError(Head(results).value) THEN 0 ELSE Head(results).value.count)
         + SumCounts(Tail(results))

\* C1: at every point of the run, so after every prefix of the sorted file
\* list and at the end, the results recorded are those of the files
\* processed so far, each success is recorded with the number of its tokens,
\* and total_token_count is the sum of the counts of the results without
\* error (an errored file adds 0).
C1_TotalIsSumOfSuccessCounts ==
    /\ total_token_count = SumCounts(all_results)
    /\ pc = "loop" => DictKeys(all_results) = SubSeq(sorted_files, 1, idx - 1)
    /\ \A i \in 1..Len(all_results) :
         IF IsError(all_results[i].value)
         THEN all_results[i].value.count = 0
         ELSE all_results[i].value.count = Len(all_results[i].value.tokens)

C1_Witness ==
    /\ pc = "report"
    /\ total_token_count > 0
    /\ ErrorEntries # {}
    /\ Len(all_results) > Cardinality(ErrorEntries)

\* C2: whatever files succeed or fail, the loop runs to the end: the process
\* never dies inside it, each step records the outcome of the next file of
\* the sorted list, a failure as that file's error, and once the loop is
\* left every discovered file has exactly one outcome.
C2_EveryFileGetsOneOutcome ==
    /\ pc = "loop" =>
         /\ idx <= Len(sorted_files)
         /\ Len(all_results) = idx - 1
    /\ pc = "crashed" => idx = Len(sorted_files) + 1
    /\ (code_files # <<>> /\ pc \in {"report", "save", "write", "exit", "done", "crashed"}) =>
         /\ Len(all_results) = Len(code_files)
         /\ \A i \in 1..Len(code_files) :
              Cardinality({j \in 1..Len(all_results) :
                              all_results[j].key = code_files[i]}) = 1
    /\ pc \in {"loop", "report"} => Len(errors) = Cardinality(ErrorEntries)

C2_Witness ==
    /\ pc = "report"
    /\ Len(all_results) = 2
    /\ IsError(all_results[1].value)
    /\ ~IsError(all_results[2].value)

\* Writing the requested output failed.
WriteFailed == Printed("write_error") \/ Printed("unexpected_output_error")

\* C3: a run that found files and reached the final exit step exits with 1
\* exactly when a file failed and no output was requested, or the requested
\* output could not be written; otherwise with 0, whatever the paths and the
\* messages are.
C3_ExitCodeRule ==
    (pc = "done" /\ code_files # <<>>) =>
        /\ exit_code \in {0, 1}
        /\ exit_code = 1 <=>
              \/ ErrorEntries # {} /\ ~Truthy(args.output)
              \/ Truthy(args.output) /\ WriteFailed

\* C4: with the external mode selected and its library missing, the process
\* goes from validation straight to exit status 1: no discovery, no file
\* opened, no outcome, no summary, the output path untouched.
C4_UnavailableModeExitsFirst ==
    (args.mode = "tiktoken" /\ ~TIKTOKEN_AVAILABLE /\ pc # "idle") =>
        /\ pc \in {"validate", "done", "interrupted"}
        /\ pc = "done" => exit_code = 1
        /\ code_files = <<>>
        /\ opened = {}
        /\ all_results = <<>>
        /\ ~Printed("found") /\ ~Printed("no_code_files")
        /\ ~Printed("summary_header") /\ ~Printed("total")
        /\ disk = disk0

C4_Witness ==
    /\ args.mode = "tiktoken"
    /\ ~TIKTOKEN_AVAILABLE
    /\ Truthy(args.output)
    /\ world.kind = "dir" /\ world.files # <<>>
    /\ pc = "done"
    /\ exit_code = 1

\* Discovery has returned.
Discovered == Printed("found") \/ Printed("no_code_files")

\* The directory holds no file with an allowed extension.
NoAllowedFile ==
    \A i \in 1..Len(world.files) : Lower(splitext(world.files[i])) \notin allowed_extensions

\* C5: when discovery yields no file, as it does for a missing path and for
\* a directory without a file of an allowed extension, the run reports that
\* no code files were found and exits with 0: nothing is processed, no
\* summary is printed, the output path is left as it was.
C5_EmptyDiscoveryExitsZero ==
    /\ (Discovered /\ (world.kind = "missing" \/ (world.kind = "dir" /\ NoAllowedFile))) =>
          code_files = <<>>
    /\ (Discovered /\ code_files = <<>>) =>
          /\ pc = "done"
          /\ exit_code = 0
          /\ console[Len(console)] = Err("no_code_files", <<>>)
          /\ opened = {}
          /\ all_results = <<>>
          /\ ~Printed("summary_header") /\ ~Printed("total")
          /\ disk = disk0

C5_Witness ==
    /\ world.kind = "dir"
    /\ world.files # <<>>
    /\ Truthy(args.output)
    /\ Printed("no_code_files")
    /\ pc = "done"
    /\ exit_code = 0

\* The input path is one existing file whose extension is not allowed.
UnsupportedSingleFile ==
    /\ world.kind = "file"
    /\ Lower(splitext(abspath(args.input_path))) \notin NormalizeExtensions(args.extensions)

\* C6 as stated: a single named file with an unsupported extension makes the
\* run exit with 1.
C6_UnsupportedFileExitsOne ==
    (pc = "done" /\ UnsupportedSingleFile) => exit_code = 1

\* C6 as amended: past the mode check, a single named file with an
\* unsupported extension is skipped with a warning, nothing is opened, the
\* run reports that no code files were found and exits with 0.
C6_UnsupportedFileExitsZero ==
    (pc = "done" /\ UnsupportedSingleFile
       /\ ~(args.mode = "tiktoken" /\ ~TIKTOKEN_AVAILABLE)) =>
        /\ exit_code = 0
        /\ Printed("skip_unsupported")
        /\ Printed("no_code_files")
        /\ code_files = <<>>
        /\ opened = {}

C6_Witness ==
    /\ pc = "done"
    /\ UnsupportedSingleFile
    /\ args.input_path = <<"c", ".", "b", "i", "n">>
    /\ exit_code = 0

\* Whether the pieces are a whole JSON list, and the list json.load gives.
JsonComplete(data) ==
    /\ Len(data) >= 2
    /\ data[1].t = "["
    /\ data[Len(data)].t = "]"
    /\ \A i \in 2..(Len(data) - 1) : data[i].t \in {"array", "object"}

JsonLoad(data) == [i \in 1..(Len(data) - 2) |-> data[i + 1]]

\* The discovered file with i - 1 discovered files before it in the order of
\* the paths.
FileOfRank(i) ==
    CHOOSE f \in {code_files[k] : k \in 1..Len(code_files)} :
        Cardinality({g \in {code_files[k] : k \in 1..Len(code_files)} : StrLess(g, f)}) = i - 1

\* C7: in external mode, once the output is saved, the path holds a whole
\* JSON list with one entry per discovered file, in the order of the paths:
\* the IDs of a file that succeeded, the error and the path of one that
\* failed.
C7_JsonListOneEntryPerFile ==
    (args.mode = "tiktoken" /\ Printed("saved")) =>
        /\ disk.exists
        /\ JsonComplete(disk.data)
        /\ LET list == JsonLoad(disk.data)
           IN  /\ Len(list) = Len(code_files)
               /\ \A i \in 1..Len(list) :
                    LET file_path == FileOfRank(i)
                        result == DictGet(all_results, file_path)
                    IN  IF IsError(result)
                        THEN /\ list[i].t = "object"
                             /\ list[i].v.error = result.error
                             /\ list[i].v.file = file_path
                        ELSE /\ list[i].t = "array"
                             /\ list[i].v = result.tokens
                             /\ \A k \in 1..Len(list[i].v) : list[i].v[k] \in Int

C7_Witness ==
    /\ args.mode = "tiktoken"
    /\ Printed("saved")
    /\ pc = "done"
    /\ Len(code_files) = 2
    /\ Cardinality(ErrorEntries) = 1

\* C8: an interrupted run leaves the output path as it was before the run, or
\* holding the complete output.
C8_OutputAllOrNothing ==
    (pc = "interrupted" /\ Truthy(args.output)) =>
        \/ disk = disk0
        \/ disk = [exists |-> TRUE, data |-> OutputPieces(all_results, args.mode)]

\* C9: no token basic_tokenizer returns is empty, is whitespace only, or
\* holds a whitespace character.
C9_NoWhitespaceInTokens ==
    tpc = "done" =>
        \A i \in 1..Len(tokens) :
            /\ tokens[i] # <<>>
            /\ \A k \in 1..Len(tokens[i]) : tokens[i][k] \notin {" ", "\t", "\n"}

C9_Witness ==
    /\ tpc = "done"
    /\ Len(tokens) = 2
    /\ \E k \in 1..Len(text) : text[k] \in {" ", "\n"}

\* C10 as stated: the example text gives 11 tokens, "-1" one of them.
C10_ExampleElevenTokens ==
    (tpc = "done" /\ text = ExampleText) =>
        tokens = << <<"i", "f">>, <<"(">>, <<"a">>, <<"=", "=">>, <<"b">>, <<")">>, <<"{">>,
                    <<"r", "e", "t", "u", "r", "n">>, <<"-", "1">>, <<";">>, <<"}">> >>

\* C10 as amended: the example text gives 12 tokens, the sign and the numeral
\* apart, "==" in one piece.
C10_ExampleTwelveTokens ==
    (tpc = "done" /\ text = ExampleText) =>
        tokens = << <<"i", "f">>, <<"(">>, <<"a">>, <<"=", "=">>, <<"b">>, <<")">>, <<"{">>,
                    <<"r", "e", "t", "u", "r", "n">>, <<"-">>, <<"1">>, <<";">>, <<"}">> >>

C10_Witness == tpc = "done" /\ text = ExampleText /\ Len(tokens) = 12

\* C11: a listed multi-character operator between two names, with or
\* without spaces around it, comes out as one token: the name, the whole
\* operator, the name.
C11_ListedOperatorIsOneToken ==
    \A op \in ListedOperators :
        (tpc = "done" /\ text \in {<<"a">> \o op \o <<"b">>,
                                   <<"a", " ">> \o op \o <<" ", "b">>}) =>
            tokens = << <<"a">>, op, <<"b">> >>

\* The per-file lines of the summary, in the order printed, and their paths.
FileLines ==
    SelectSeq(console, LAMBDA l : l.kind \in {"summary_error", "summary_tokens"})

LinePaths == [i \in 1..Len(FileLines) |-> FileLines[i].detail[1]]

\* The sum of the counts the per-file lines show.
RECURSIVE SumLines(_)
SumLines(lines) ==
    IF lines = <<>> THEN 0
    ELSE (IF Head(lines).kind = "summary_tokens" THEN Head(lines).detail[2] ELSE 0)
         + SumLines(Tail(lines))

\* The total the summary shows.
TotalShown ==
    LET at == CHOOSE i \in 1..Len(console) : console[i].kind = "total"
    IN  console[at].detail[1]

\* C12 as stated: the summary has one line per discovered file, in the order
\* find_code_files produced the paths, and the total is the sum over them.
C12_SummaryInDiscoveryOrder ==
    Printed("total") =>
        /\ LinePaths = code_files
        /\ TotalShown = SumLines(FileLines)

\* C12 as amended: the summary has one line per discovered file, in the
\* ascending order of the paths whatever order discovery listed them in, and
\* the total is the sum of the counts shown, in any order.
C12_SummaryInSortedOrder ==
    Printed("total") =>
        /\ Len(LinePaths) = Len(code_files)
        /\ {LinePaths[i] : i \in 1..Len(LinePaths)}
              = {code_files[i] : i \in 1..Len(code_files)}
        /\ \A i, j \in 1..Len(LinePaths) : i < j => StrLess(LinePaths[i], LinePaths[j])
        /\ TotalShown = SumLines(FileLines)

C12_Witness ==
    /\ Printed("total")
    /\ Len(code_files) = 2
    /\ StrLess(code_files[2], code_files[1])
    /\ TotalShown > 0

====
